---- MODULE Spec2Model ----
(***************************************************************************)
(* Model of MitreMCPClient (clients/python/mini-mcp-client.py): the        *)
(* request-id counter, the session token, the connection handle, and the   *)
(* coroutines initialize_session, call_tool and close, cut into atomic     *)
(* steps at their await points.  Response bodies are token sequences, and  *)
(* json.loads / _parse_sse_response are operators on them.                 *)
(***************************************************************************)
EXTENDS Integers, Sequences, FiniteSets, TLC

\* ------------------------------------------------------------ bounds
\* Coroutine slots that may run methods of the one client.
NProcs == 2
\* Invocations (call_tool, initialize_session, close) started on the client.
MaxOps == 3

Procs == 1..NProcs

\* ------------------------------------------------------------ JSON values
\* Python's None for an Optional[str] field, and the default of headers.get.
None == "<None>"

\* A JSON value: ty is its JSON type; an object value lists its keys and the
\* values of "code" and "message" ("None" is what dict.get gives when absent).
NullV == [ty |-> "null", n |-> 0, s |-> "", keys |-> {}, code |-> "None", message |-> "None"]
IntV(i) == [ty |-> "int", n |-> i, s |-> "", keys |-> {}, code |-> "None", message |-> "None"]
StrV(x) == [ty |-> "string", n |-> 0, s |-> x, keys |-> {}, code |-> "None", message |-> "None"]
ObjV(ks, c, m) == [ty |-> "object", n |-> 0, s |-> "", keys |-> ks, code |-> c, message |-> m]

\* The error objects and non-objects a response may carry under "error".
ErrFull == ObjV({"code", "message"}, "-32601", "Method not found")
ErrEmpty == ObjV({}, "None", "None")
ErrNull == NullV

\* Keys of a response envelope the model distinguishes.
Keys == {"id", "result", "error", "_meta"}

\* A parsed JSON object (a Python dict): the keys present and their values.
EmptyDoc == [has |-> {}, val |-> [k \in Keys |-> NullV]]
DocPut(d, k, v) == [has |-> d.has \cup {k}, val |-> [d.val EXCEPT ![k] = v]]

\* ------------------------------------------------------------ tokens and text
\* A token of body text.  "member" is one  "key": value  pair of an object.
Tok(t) == [t |-> t, k |-> "", v |-> NullV]
Member(k, v) == [t |-> "member", k |-> k, v |-> v]
LBrace == Tok("{")
RBrace == Tok("}")
Comma == Tok(",")
DataMark == Tok("data: ")
DataNoSpace == Tok("data:")
EventLine == <<Tok("event: "), Tok("message")>>
\* A blank at the start of a line.
Space == Tok(" ")

\* The outcome of a parse: a document, or json.JSONDecodeError.
ParseOk(d) == [ok |-> TRUE, doc |-> d]
ParseFail == [ok |-> FALSE, doc |-> EmptyDoc]

RECURSIVE Members(_, _)
\* The members of an object body  m (, m)*  folded left to right into a dict
\* (a repeated key keeps its last value), or ParseFail.
Members(toks, d) ==
  IF toks = <<>> THEN ParseFail
  ELSE IF Head(toks).t # "member" THEN ParseFail
  ELSE LET d2 == DocPut(d, Head(toks).k, Head(toks).v)
           rest == Tail(toks)
       IN IF rest = <<>> THEN ParseOk(d2)
          ELSE IF Head(rest) # Comma THEN ParseFail
          ELSE Members(Tail(rest), d2)

\* json.loads on a token sequence: one object  { members }  and nothing else.
JsonLoads(toks) ==
  IF Len(toks) < 2 THEN ParseFail
  ELSE IF toks[1] # LBrace \/ toks[Len(toks)] # RBrace THEN ParseFail
  ELSE IF Len(toks) = 2 THEN ParseOk(EmptyDoc)
  ELSE Members(SubSeq(toks, 2, Len(toks) - 1), EmptyDoc)

RECURSIVE Flatten(_)
\* The text of a body as one token sequence (a newline is JSON whitespace).
Flatten(lines) ==
  IF lines = <<>> THEN <<>> ELSE Head(lines) \o Flatten(Tail(lines))

\* Every line with text contributing what follows its first token.
DataSuffixesOfAll(lines) ==
  LET text == {i \in DOMAIN lines : lines[i] # <<>>}
      F[n \in 0..Len(lines)] ==
        IF n = 0 THEN <<>>
        ELSE F[n - 1] \o (IF n \in text THEN Tail(lines[n]) ELSE <<>>)
  IN F[Len(lines)]

\* The first data line alone.
DataSuffixesFirst(lines) ==
  LET data == {i \in DOMAIN lines : lines[i] # <<>> /\ Head(lines[i]) = DataMark}
  IN IF data = {} THEN <<>>
     ELSE Tail(lines[CHOOSE i \in data : \A j \in data : i <= j])

RECURSIVE DataSuffixes(_)
\* The loop of _parse_sse_response with the join: for each line beginning with
\* "data: ", the rest of the line, concatenated in order.
DataSuffixes(lines) ==
  IF lines = <<>> THEN <<>>
  ELSE LET line == Head(lines)
       IN (IF line # <<>> /\ Head(line) = DataMark THEN Tail(line) ELSE <<>>)
            \o DataSuffixes(Tail(lines))

\* str.strip().split('\n') on a body held as lines: the blank lines and the
\* blanks before the first text go, and the blank lines after the last.
RECURSIVE StripLeft(_)
StripLeft(lines) ==
  IF lines = <<>> THEN lines
  ELSE IF Head(lines) = <<>> THEN StripLeft(Tail(lines))
  ELSE IF Head(Head(lines)) = Space THEN StripLeft(<<Tail(Head(lines))>> \o Tail(lines))
  ELSE lines
RECURSIVE StripRight(_)
StripRight(lines) ==
  IF lines # <<>> /\ lines[Len(lines)] = <<>>
  THEN StripRight(SubSeq(lines, 1, Len(lines) - 1)) ELSE lines
StripLines(lines) == StripRight(StripLeft(lines))

_parse_sse_response(sse_text) == JsonLoads(DataSuffixes(StripLines(sse_text)))

\* response.json(): the whole body text parsed as one JSON document.
ResponseJson(body) == JsonLoads(Flatten(body))

\* ------------------------------------------------------------ the server's answers
\* HTTP statuses: raise_for_status passes exactly the 2xx ones.
Statuses == {200, 500}
Is2xx(status) == status >= 200 /\ status < 300

\* Values of the response header "mcp-session-id" (None: header absent).
SessionHeaders == {None, "", "sess-A", "sess-B"}

\* Values of the response header "content-type" ("" : header absent, the
\* default of headers.get), and those that contain "text/event-stream".
ContentTypes == {"", "application/json", "text/event-stream; charset=utf-8"}
EventStreamTypes == {"text/event-stream; charset=utf-8"}

\* Object text  { m1 , m2 , ... }  for a sequence of members.
RECURSIVE Separated(_)
Separated(ms) ==
  IF ms = <<>> THEN <<>>
  ELSE IF Len(ms) = 1 THEN ms
  ELSE <<Head(ms), Comma>> \o Separated(Tail(ms))
ObjectText(ms) == <<LBrace>> \o Separated(ms) \o <<RBrace>>

\* The three framings a server uses for a document.
JsonBody(ms) == <<ObjectText(ms)>>
SseBody(ms) == <<EventLine, <<DataMark>> \o ObjectText(ms), <<>>>>
\* The document split after its k-th token over two data lines.
SseSplitAt(ms, k) ==
  LET t == ObjectText(ms)
  IN <<EventLine, <<DataMark>> \o SubSeq(t, 1, k), <<DataMark>> \o SubSeq(t, k + 1, Len(t)), <<>>>>
SseSplitBody(ms) == SseSplitAt(ms, 2)

\* Envelopes a server may answer a request of id i with: a result, a result
\* with further metadata, an error object (with and without code/message), a
\* null error beside a result, both fields, neither field, a foreign id.
Envelopes(i) ==
  { <<Member("id", IntV(i)), Member("result", StrV("tactics"))>>,
    <<Member("id", IntV(i)), Member("result", StrV("tactics")), Member("_meta", StrV("m"))>>,
    <<Member("id", IntV(i)), Member("error", ErrFull)>>,
    <<Member("id", IntV(i)), Member("error", ErrEmpty)>>,
    <<Member("id", IntV(i)), Member("result", StrV("tactics")), Member("error", ErrNull)>>,
    <<Member("id", IntV(i)), Member("result", StrV("tactics")), Member("error", ErrFull)>>,
    <<Member("id", IntV(i))>>,
    <<Member("id", IntV(0)), Member("result", StrV("tactics"))>> }

\* Bodies that are no document in any framing: empty, an event-stream without
\* data lines, a truncated object, a data field written without the space.
Malformed(i) ==
  { <<>>,
    <<EventLine, <<>>>>,
    <<<<LBrace, Member("id", IntV(i))>>>>,
    <<EventLine, <<DataNoSpace>> \o ObjectText(<<Member("id", IntV(i)), Member("result", StrV("tactics"))>>)>> }

\* An SSE frame that begins with a blank line and whose data line, the first
\* line with text, is indented.
SseIndentedBody(ms) == <<<<>>, <<Space, DataMark>> \o ObjectText(ms), <<>>>>

\* A body whose only data line does not begin with the marker.
Indented(i) == {SseIndentedBody(<<Member("id", IntV(i)), Member("result", StrV("tactics"))>>)}

Bodies(i) ==
  {JsonBody(ms) : ms \in Envelopes(i)} \cup {SseBody(ms) : ms \in Envelopes(i)}
    \cup {SseSplitBody(ms) : ms \in Envelopes(i)} \cup Malformed(i) \cup Indented(i)

\* What a POST comes back with: a response, or no response at all.
Response(st, sh, ct, b) == [status |-> st, session |-> sh, ctype |-> ct, body |-> b]
NoResponse == Response(0, None, "", <<>>)
\* Answers to tools/call.  call_tool reads the status first and the content type
\* and body only of a 2xx answer, so one body stands for all under another status.
Responses(i) ==
  {Response(200, sh, ct, b) : sh \in {None, "sess-B"}, ct \in ContentTypes, b \in Bodies(i)}
    \cup {Response(st, sh, "application/json", JsonBody(<<Member("id", IntV(i)), Member("error", ErrFull)>>)) :
            st \in Statuses \ {200}, sh \in {None, "sess-B"}}
\* Answers to tools/call in overlapping runs, where the claims are about ids and
\* the session: a result, an error envelope and a non-2xx answer, as JSON.
OverlapResponses(i) ==
  {r \in Responses(i) :
     /\ r.session = None /\ r.ctype = "application/json"
     /\ r.body \in {JsonBody(<<Member("id", IntV(i)), Member("result", StrV("tactics"))>>),
                     JsonBody(<<Member("id", IntV(i)), Member("error", ErrFull)>>)}}
\* The body of the answer to initialize is never read (it is only printed in
\* debug mode), so one well-formed body stands for all.
InitResponses ==
  {Response(st, sh, "application/json", JsonBody(<<Member("result", StrV("init"))>>)) :
     st \in Statuses, sh \in SessionHeaders}
\* Answers to initialize in overlapping runs: accepted with one of two tokens or
\* without one, or refused.
OverlapInitResponses ==
  {r \in InitResponses :
     \/ r.status = 200 /\ r.session \in {None, "sess-A", "sess-B"}
     \/ r.status # 200 /\ r.session = None}
\* httpx exceptions of a POST that gets no response (subclasses of httpx.HTTPError).
TransportFailures == {"ConnectError", "ReadTimeout"}

\* ------------------------------------------------------------ state
VARIABLES
  request_id,   \* self.request_id
  session_id,   \* self.session_id (None or the header value stored)
  http_client,  \* self.http_client: 0 for None, else the handle of an AsyncClient
  pc,           \* per coroutine: the await it is suspended at
  op,           \* per coroutine: the method it was invoked for
  payload,      \* per coroutine: the id of call_tool's local payload (0: none)
  response,     \* per coroutine: call_tool's local response
  ret,          \* per coroutine: what the method returned or raised
  callNo,       \* history: per coroutine, the ordinal of its call_tool invocation
  initGot,      \* history: per coroutine, the answer its initialize request got
  built,        \* history: request envelopes in the order they were built
  wire,         \* history: requests in the order they were sent
  opened,       \* history: number of AsyncClient objects created
  released,     \* history: handles on which aclose() was awaited, in order
  nOps,         \* history: invocations started
  nCalls,       \* history: call_tool invocations started
  headerSeen,   \* history: some response carried the mcp-session-id header
  opsLog,       \* history: the methods invoked on the client, in order
  stderr,       \* what has been printed to sys.stderr
  stdout,       \* what has been printed to sys.stdout
  mainPc,       \* where main() is ("lib": the client is used without main)
  no_pretty,    \* args.no_pretty of main()
  exit_status   \* the status the process exits with (1 once sys.exit(1) is raised)

vars == <<request_id, session_id, http_client, pc, op, payload, response, ret,
          callNo, initGot, built, wire, opened, released, nOps, nCalls, headerSeen,
          opsLog, stderr, stdout, mainPc, no_pretty, exit_status>>

\* The state of main(), which the methods of the client do not touch.
mainVars == <<stdout, mainPc, no_pretty, exit_status>>

\* Python truthiness of an Optional[str]: None and "" are falsy.
Truthy(x) == x # None /\ x # ""

\* What a method invocation ended with.
NoRet == [kind |-> "none", value |-> EmptyDoc, exc |-> "", code |-> "", message |-> ""]
Returned(d) == [kind |-> "return", value |-> d, exc |-> "", code |-> "", message |-> ""]
Raised(e) == [kind |-> "raise", value |-> EmptyDoc, exc |-> e, code |-> "", message |-> ""]
\* ValueError(f"JSON-RPC Error {error.get('code')}: {error.get('message')}")
RaisedRpc(c, m) == [kind |-> "raise", value |-> EmptyDoc, exc |-> "ValueError", code |-> c, message |-> m]

Envelope(method, id, call) == [method |-> method, id |-> id, call |-> call]
Request(method, id, call, sess, conn) ==
  [method |-> method, id |-> id, call |-> call, session |-> sess, conn |-> conn]

\* The fields of a client after __init__, with nothing invoked or printed yet.
Constructed ==
  /\ request_id = 0
  /\ session_id = None
  /\ http_client = 0
  /\ pc = [p \in Procs |-> "idle"]
  /\ op = [p \in Procs |-> "none"]
  /\ payload = [p \in Procs |-> 0]
  /\ response = [p \in Procs |-> NoResponse]
  /\ ret = [p \in Procs |-> NoRet]
  /\ callNo = [p \in Procs |-> 0]
  /\ initGot = [p \in Procs |-> NoResponse]
  /\ built = <<>>
  /\ wire = <<>>
  /\ opened = 0
  /\ released = <<>>
  /\ nOps = 0
  /\ nCalls = 0
  /\ headerSeen = FALSE
  /\ opsLog = <<>>
  /\ stderr = <<>>
  /\ stdout = <<>>
  /\ no_pretty = FALSE
  /\ exit_status = 0

\* A client used as a library, without main().
Init == Constructed /\ mainPc = "lib"

\* The process started from the command line, main() about to parse sys.argv.
InitMain == Constructed /\ mainPc = "parse_args"

\* ------------------------------------------------------------ pieces of the methods
\* A counter that is read without being advanced.
NextIdStuck(id) == id
\* A counter advanced by two for each envelope.
NextIdByTwo(id) == id + 2
\* `self.request_id += 1`
NextId(id) == id + 1

\* call_tool initializing on every call, whether or not a token is held.
NeedsInitAlways(sid) == TRUE
\* `if not self.session_id:` in call_tool
NeedsInitNever(sid) == FALSE

NeedsInit(sid) == ~Truthy(sid)

\* headers.get("mcp-session-id", "") : an absent header stored as "".
StoredSessionDefault(sid, resp) == IF resp.session = None THEN "" ELSE resp.session
\* `self.session_id = response.headers.get("mcp-session-id")`
StoredSessionKeep(sid, resp) == IF Truthy(sid) THEN sid ELSE resp.session

StoredSession(sid, resp) == resp.session

\* `if self.session_id: headers["mcp-session-id"] = self.session_id`
SessionHeaderForNone(sid) == None

SessionHeaderFor(sid) == IF Truthy(sid) THEN sid ELSE None

\* `if not self.http_client: self.http_client = httpx.AsyncClient(timeout=30.0)`
\* The handle of the connection closed last taken up again.
ClientForClosed(hc, n) == IF hc = 0 THEN n ELSE hc

ClientFor(hc, n) == IF hc = 0 THEN n + 1 ELSE hc
OpenedFor(hc, n) == IF hc = 0 THEN n + 1 ELSE n

\* response.raise_for_status()
\* Line 96: self.http_client = None.
ClientAfterCloseKept(hc) == hc

ClientAfterClose(hc) == 0

RaisesForStatusNever(resp) == FALSE

RaisesForStatus(resp) == ~Is2xx(resp.status)

\* The parser call_tool applies to a response: by content type alone.
\* The parser chosen by looking for a data line in the body.
ParseBodySniffed(resp) ==
  IF \E i \in DOMAIN resp.body : resp.body[i] # <<>> /\ Head(resp.body[i]) = DataMark
  THEN _parse_sse_response(resp.body)
  ELSE ResponseJson(resp.body)

ParseBody(resp) ==
  IF resp.ctype \in EventStreamTypes
  THEN _parse_sse_response(resp.body)
  ELSE ResponseJson(resp.body)

\* call_tool without the check for "error".
CheckErrorSkipped(doc) == Returned(doc)
\* call_tool returning result["result"] alone instead of the envelope.
CheckErrorUnwrap(doc) ==
  IF "error" \in doc.has
  THEN LET error == doc.val["error"]
       IN IF error.ty # "object" THEN Raised("AttributeError")
          ELSE RaisedRpc(error.code, error.message)
  ELSE Returned(DocPut(EmptyDoc, "result", doc.val["result"]))
\* What call_tool does with a parsed envelope: `if "error" in result:` raise
\* ValueError from error.get('code') and error.get('message') (an error that is
\* no dict has no .get: AttributeError), else return it.
CheckError(doc) ==
  IF "error" \in doc.has
  THEN LET error == doc.val["error"]
       IN IF error.ty # "object" THEN Raised("AttributeError")
          ELSE RaisedRpc(error.code, error.message)
  ELSE Returned(doc)

\* call_tool turning a body it cannot parse into a ValueError of its own.
ClassifyWrapped(resp) ==
  IF RaisesForStatus(resp) THEN Raised("HTTPStatusError")
  ELSE LET parsed == ParseBody(resp)
       IN IF ~parsed.ok THEN Raised("ValueError") ELSE CheckError(parsed.doc)
\* call_tool after the POST came back with a response: lines 187-205.
Classify(resp) ==
  IF RaisesForStatus(resp) THEN Raised("HTTPStatusError")
  ELSE LET parsed == ParseBody(resp)
       IN IF ~parsed.ok THEN Raised("JSONDecodeError") ELSE CheckError(parsed.doc)

\* Instances of httpx.HTTPError among the exceptions of the model.
HTTPErrors == TransportFailures \cup {"HTTPStatusError"}

\* The handlers of call_tool, lines 207-218: `except httpx.HTTPError` prints
\* "HTTP Error", `except Exception` prints "Error", both to sys.stderr, and
\* re-raise.  initialize_session invoked directly has no handler.
Handled(log, method, r) ==
  IF method = "call_tool" /\ r.kind = "raise"
  THEN Append(log, IF r.exc \in HTTPErrors THEN "call_tool: HTTP Error" ELSE "call_tool: Error")
  ELSE log

\* ------------------------------------------------------------ call_tool
\* Lines 144-180 up to the first await: the payload, then either
\* initialize_session up to its POST or the tools/call POST.
CallToolStart(p) ==
  /\ pc[p] = "idle"
  /\ nOps < MaxOps
  /\ nOps' = nOps + 1
  /\ nCalls' = nCalls + 1
  /\ op' = [op EXCEPT ![p] = "call_tool"]
  /\ callNo' = [callNo EXCEPT ![p] = nCalls + 1]
  /\ LET id == NextId(request_id)
         call == nCalls + 1
         hc == ClientFor(http_client, opened)
     IN /\ payload' = [payload EXCEPT ![p] = id]
        /\ http_client' = hc
        /\ opened' = OpenedFor(http_client, opened)
        /\ IF NeedsInit(session_id)
           THEN /\ request_id' = NextId(id)
                /\ built' = built \o <<Envelope("tools/call", id, call),
                                       Envelope("initialize", NextId(id), call)>>
                /\ wire' = Append(wire, Request("initialize", NextId(id), call, None, hc))
                /\ pc' = [pc EXCEPT ![p] = "init_post"]
           ELSE /\ request_id' = id
                /\ built' = Append(built, Envelope("tools/call", id, call))
                /\ wire' = Append(wire, Request("tools/call", id, call,
                                                SessionHeaderFor(session_id), hc))
                /\ pc' = [pc EXCEPT ![p] = "call_post"]
  /\ UNCHANGED <<session_id, response, ret, initGot, released, headerSeen>>
  /\ opsLog' = Append(opsLog, "call_tool")
  /\ UNCHANGED <<stderr, mainVars>>

\* ------------------------------------------------------------ initialize_session
\* Lines 48-80 when invoked by the caller directly.
InitializeSessionStart(p) ==
  /\ pc[p] = "idle"
  /\ nOps < MaxOps
  /\ nOps' = nOps + 1
  /\ op' = [op EXCEPT ![p] = "initialize_session"]
  /\ LET id == NextId(request_id)
         hc == ClientFor(http_client, opened)
     IN /\ request_id' = id
        /\ built' = Append(built, Envelope("initialize", id, 0))
        /\ http_client' = hc
        /\ opened' = OpenedFor(http_client, opened)
        /\ wire' = Append(wire, Request("initialize", id, 0, None, hc))
  /\ pc' = [pc EXCEPT ![p] = "init_post"]
  /\ UNCHANGED <<session_id, payload, response, ret, callNo, initGot, released, nCalls, headerSeen>>
  /\ opsLog' = Append(opsLog, "initialize_session")
  /\ UNCHANGED <<stderr, mainVars>>

\* The POST of initialize_session fails without a response (line 76 raises).
InitNoResponse(p) ==
  /\ pc[p] = "init_post"
  /\ \E e \in TransportFailures : ret' = [ret EXCEPT ![p] = Raised(e)]
  /\ pc' = [pc EXCEPT ![p] = "done"]
  /\ UNCHANGED <<request_id, session_id, http_client, op, payload, response,
                 callNo, initGot, built, wire, opened, released, nOps, nCalls, headerSeen>>
  /\ stderr' = Handled(stderr, op[p], ret'[p])
  /\ UNCHANGED <<opsLog, mainVars>>

\* The POST of initialize_session comes back: lines 83-90, and for a call_tool
\* that initialize_session returns to, lines 159-180.
InitResponseFrom(p, answers) ==
  /\ pc[p] = "init_post"
  /\ \E r \in answers :
       LET sid == StoredSession(session_id, r)
           hc == ClientFor(http_client, opened)
       IN /\ session_id' = sid
          /\ initGot' = [initGot EXCEPT ![p] = r]
          /\ headerSeen' = (headerSeen \/ r.session # None)
          /\ IF RaisesForStatus(r)
             THEN /\ ret' = [ret EXCEPT ![p] = Raised("HTTPStatusError")]
                  /\ pc' = [pc EXCEPT ![p] = "done"]
                  /\ UNCHANGED <<http_client, opened, wire>>
             ELSE IF op[p] = "initialize_session"
             THEN /\ ret' = [ret EXCEPT ![p] = Returned(EmptyDoc)]
                  /\ pc' = [pc EXCEPT ![p] = "done"]
                  /\ UNCHANGED <<http_client, opened, wire>>
             ELSE /\ http_client' = hc
                  /\ opened' = OpenedFor(http_client, opened)
                  /\ wire' = Append(wire, Request("tools/call", payload[p], callNo[p],
                                                  SessionHeaderFor(sid), hc))
                  /\ pc' = [pc EXCEPT ![p] = "call_post"]
                  /\ UNCHANGED ret
  /\ UNCHANGED <<request_id, op, payload, response, callNo, built, released, nOps, nCalls>>
  /\ stderr' = Handled(stderr, op[p], ret'[p])
  /\ UNCHANGED <<opsLog, mainVars>>

InitResponse(p) == InitResponseFrom(p, InitResponses)

\* The same step with the answers of overlapping runs.
InitResponseOverlap(p) == InitResponseFrom(p, OverlapInitResponses)

\* The tools/call POST fails without a response (line 176 raises, 207-215).
CallNoResponse(p) ==
  /\ pc[p] = "call_post"
  /\ \E e \in TransportFailures : ret' = [ret EXCEPT ![p] = Raised(e)]
  /\ pc' = [pc EXCEPT ![p] = "done"]
  /\ UNCHANGED <<request_id, session_id, http_client, op, payload, response,
                 callNo, initGot, built, wire, opened, released, nOps, nCalls, headerSeen>>
  /\ stderr' = Handled(stderr, op[p], ret'[p])
  /\ UNCHANGED <<opsLog, mainVars>>

\* The tools/call POST comes back: lines 187-205 and the handlers 207-218,
\* which re-raise what they caught.
CallResponseFrom(p, answers) ==
  /\ pc[p] = "call_post"
  /\ \E r \in answers :
       /\ response' = [response EXCEPT ![p] = r]
       /\ ret' = [ret EXCEPT ![p] = Classify(r)]
       /\ headerSeen' = (headerSeen \/ r.session # None)
  /\ pc' = [pc EXCEPT ![p] = "done"]
  /\ UNCHANGED <<request_id, session_id, http_client, op, payload,
                 callNo, initGot, built, wire, opened, released, nOps, nCalls>>
  /\ stderr' = Handled(stderr, op[p], ret'[p])
  /\ UNCHANGED <<opsLog, mainVars>>

CallResponse(p) == CallResponseFrom(p, Responses(payload[p]))

\* The same step with the answers of overlapping runs.
CallResponseOverlap(p) == CallResponseFrom(p, OverlapResponses(payload[p]))

\* ------------------------------------------------------------ close
\* Lines 94-95: nothing to do without a client, else await aclose().
CloseStart(p) ==
  /\ pc[p] = "idle"
  /\ nOps < MaxOps
  /\ nOps' = nOps + 1
  /\ op' = [op EXCEPT ![p] = "close"]
  /\ IF http_client = 0
     THEN /\ pc' = [pc EXCEPT ![p] = "done"]
          /\ ret' = [ret EXCEPT ![p] = Returned(EmptyDoc)]
          /\ UNCHANGED released
     ELSE /\ pc' = [pc EXCEPT ![p] = "aclose"]
          /\ released' = Append(released, http_client)
          /\ UNCHANGED ret
  /\ UNCHANGED <<request_id, session_id, http_client, payload, response,
                 callNo, initGot, built, wire, opened, nCalls, headerSeen>>
  /\ opsLog' = Append(opsLog, "close")
  /\ UNCHANGED <<stderr, mainVars>>

\* Line 96 after aclose() returned.
CloseFinish(p) ==
  /\ pc[p] = "aclose"
  /\ http_client' = ClientAfterClose(http_client)
  /\ ret' = [ret EXCEPT ![p] = Returned(EmptyDoc)]
  /\ pc' = [pc EXCEPT ![p] = "done"]
  /\ UNCHANGED <<request_id, session_id, op, payload, response,
                 callNo, initGot, built, wire, opened, released, nOps, nCalls, headerSeen>>
  /\ UNCHANGED <<opsLog, stderr, mainVars>>

\* The caller takes what the method returned or raised; the locals are gone.
Collect(p) ==
  /\ pc[p] = "done"
  /\ pc' = [pc EXCEPT ![p] = "idle"]
  /\ op' = [op EXCEPT ![p] = "none"]
  /\ payload' = [payload EXCEPT ![p] = 0]
  /\ response' = [response EXCEPT ![p] = NoResponse]
  /\ ret' = [ret EXCEPT ![p] = NoRet]
  /\ callNo' = [callNo EXCEPT ![p] = 0]
  /\ initGot' = [initGot EXCEPT ![p] = NoResponse]
  /\ UNCHANGED <<request_id, session_id, http_client, built, wire, opened,
                 released, nOps, nCalls, headerSeen>>
  /\ UNCHANGED <<opsLog, stderr, mainVars>>

\* ------------------------------------------------------------ main
\* format_output, lines 220-224: json.dumps(result, indent=2) or json.dumps(result).
FormatOutput(result, pretty) ==
  [kind |-> "result", doc |-> result, layout |-> IF pretty THEN "indent=2" ELSE "compact"]

\* parser.print_help() writes the usage text to sys.stdout.
HelpText == [kind |-> "help", doc |-> EmptyDoc, layout |-> ""]

\* Lines 493-498: what main prints for what `await args.func(client, args)`
\* ended with, and the status of sys.exit(1) in the except branch.
StdoutAfter(out, r, np) ==
  IF r.kind = "return" THEN Append(out, FormatOutput(r.value, ~np)) ELSE out
StderrAfter(err, r) ==
  IF r.kind = "raise" THEN Append(err, "main: Failed to execute command") ELSE err
ExitStatusAfterZero(r) == 0

ExitStatusAfter(r) == IF r.kind = "raise" THEN 1 ELSE 0

\* Lines 496-501: whatever the try block ended with, sys.exit(1) included, the
\* finally clause runs next.
PcAfterResultExits(r) == IF r.kind = "raise" THEN "exited" ELSE "finally"

PcAfterResult(r) == "finally"

\* Lines 484-488: no command on the command line.
MainNoCommand ==
  /\ mainPc = "parse_args"
  /\ stdout' = Append(stdout, HelpText)
  /\ exit_status' = 1
  /\ mainPc' = "exited"
  /\ UNCHANGED <<request_id, session_id, http_client, pc, op, payload, response, ret,
                 callNo, initGot, built, wire, opened, released, nOps, nCalls,
                 headerSeen, opsLog, stderr, no_pretty>>

\* Lines 484-491: a command and its options, the client created.
MainParseArgs ==
  /\ mainPc = "parse_args"
  /\ \E np \in BOOLEAN : no_pretty' = np
  /\ mainPc' = "command"
  /\ UNCHANGED <<request_id, session_id, http_client, pc, op, payload, response, ret,
                 callNo, initGot, built, wire, opened, released, nOps, nCalls,
                 headerSeen, opsLog, stderr, stdout, exit_status>>

\* Line 494: args.func is one of the cmd_* functions, each of which awaits one
\* client.call_tool(...) and returns what it returns.
MainCommand(p) ==
  /\ mainPc = "command"
  /\ nCalls = 0
  /\ CallToolStart(p)

\* Lines 494-498 once call_tool has returned or raised: the result is printed,
\* or the failure is reported and sys.exit(1) raised; then the finally clause.
MainResult(p) ==
  /\ mainPc = "command"
  /\ pc[p] = "done" /\ op[p] = "call_tool"
  /\ stdout' = StdoutAfter(stdout, ret[p], no_pretty)
  /\ stderr' = StderrAfter(stderr, ret[p])
  /\ exit_status' = ExitStatusAfter(ret[p])
  /\ mainPc' = PcAfterResult(ret[p])
  /\ pc' = [pc EXCEPT ![p] = "idle"]
  /\ op' = [op EXCEPT ![p] = "none"]
  /\ payload' = [payload EXCEPT ![p] = 0]
  /\ response' = [response EXCEPT ![p] = NoResponse]
  /\ ret' = [ret EXCEPT ![p] = NoRet]
  /\ callNo' = [callNo EXCEPT ![p] = 0]
  /\ initGot' = [initGot EXCEPT ![p] = NoResponse]
  /\ UNCHANGED <<request_id, session_id, http_client, built, wire, opened,
                 released, nOps, nCalls, headerSeen, opsLog, no_pretty>>

\* Lines 499-501: await client.close() in the finally clause.
MainFinally(p) ==
  /\ mainPc = "finally"
  /\ opsLog[Len(opsLog)] # "close"
  /\ CloseStart(p)

\* close() has returned: main returns, or the pending SystemExit ends the process.
MainExit(p) ==
  /\ mainPc = "finally"
  /\ pc[p] = "done" /\ op[p] = "close"
  /\ mainPc' = "exited"
  /\ UNCHANGED <<request_id, session_id, http_client, pc, op, payload, response, ret,
                 callNo, initGot, built, wire, opened, released, nOps, nCalls,
                 headerSeen, opsLog, stderr, stdout, no_pretty, exit_status>>

\* ------------------------------------------------------------ specifications
\* One logical call in flight: a method starts only when no other is running.
Quiet == \A q \in Procs : pc[q] = "idle"

\* Sequential use of one client through all three methods.
Next ==
  \E p \in Procs :
    \/ Quiet /\ CallToolStart(p)
    \/ Quiet /\ InitializeSessionStart(p)
    \/ Quiet /\ CloseStart(p)
    \/ InitNoResponse(p)
    \/ InitResponse(p)
    \/ CallNoResponse(p)
    \/ CallResponse(p)
    \/ CloseFinish(p)
    \/ Collect(p)

Spec == Init /\ [][Next]_vars

\* Sequential call_tool invocations only, on a fresh client.
NextCalls ==
  \E p \in Procs :
    \/ Quiet /\ CallToolStart(p)
    \/ InitNoResponse(p)
    \/ InitResponse(p)
    \/ CallNoResponse(p)
    \/ CallResponse(p)
    \/ Collect(p)

SpecCalls == Init /\ [][NextCalls]_vars

\* Overlapping call_tool invocations on a fresh client: coroutines of one event
\* loop, which run from one await to the next without interruption.
\* The two coroutines whose call_tool invocations overlap.
Overlapping == {1, 2}

\* Which coroutine slot an invocation takes is immaterial: the lowest idle one.
LowestIdle(p) == \A q \in Overlapping : q < p => pc[q] # "idle"

NextOverlap ==
  \E p \in Overlapping :
    \/ LowestIdle(p) /\ CallToolStart(p)
    \/ InitNoResponse(p)
    \/ InitResponseOverlap(p)
    \/ CallNoResponse(p)
    \/ CallResponseOverlap(p)
    \/ Collect(p)

SpecOverlap == Init /\ [][NextOverlap]_vars

\* One run of the command-line front end; main is the only coroutine.
NextMain ==
  \/ MainNoCommand
  \/ MainParseArgs
  \/ MainCommand(1)
  \/ InitNoResponse(1)
  \/ InitResponse(1)
  \/ CallNoResponse(1)
  \/ CallResponse(1)
  \/ MainResult(1)
  \/ MainFinally(1)
  \/ CloseFinish(1)
  \/ MainExit(1)

SpecMain == InitMain /\ [][NextMain]_vars

\* ------------------------------------------------------------ properties
\* Number of initialize requests sent so far.
InitsSent == Cardinality({i \in DOMAIN wire : wire[i].method = "initialize"})
\* Number of initialize envelopes built by the invocations before call number c.
InitsBuiltBefore(c) ==
  Cardinality({j \in DOMAIN built : built[j].method = "initialize" /\ built[j].call < c})
\* Coroutines whose call_tool has ended and not yet been collected.
CallsDone == {p \in Procs : pc[p] = "done" /\ op[p] = "call_tool"}

\* C1 as stated: the N-th call_tool invocation sends its tools/call request with
\* id N.
C1_NthCallSendsIdN ==
  \A i \in DOMAIN wire :
    wire[i].method = "tools/call" => wire[i].id = wire[i].call

\* C1 amended: the N-th call_tool invocation sends its tools/call request with
\* id N + K, K the number of initialize envelopes the earlier invocations built.
C1_NthCallSendsIdNPlusInits ==
  \A i \in DOMAIN wire :
    wire[i].method = "tools/call"
      => wire[i].id = wire[i].call + InitsBuiltBefore(wire[i].call)

\* The third call_tool sends id 5 after two earlier calls that each initialized.
C1_Witness ==
  \E i \in DOMAIN wire :
    /\ wire[i].method = "tools/call"
    /\ wire[i].call = 3
    /\ wire[i].id = 5
    /\ InitsBuiltBefore(3) = 2

\* C2: under any sequence of initialize_session, call_tool and close, failed
\* ones included, request_id never decreases and no two envelopes built by the
\* client carry the same id.
C2_IdsNeverReused ==
  /\ [](\A i, j \in DOMAIN built : i # j => built[i].id # built[j].id)
  /\ [][request_id' >= request_id]_vars

\* Three envelopes built, one method has raised, and close has released a handle.
C2_Witness ==
  /\ Len(built) >= 3
  /\ released # <<>>
  /\ \E p \in Procs : pc[p] = "done" /\ ret[p].kind = "raise"
  /\ \E i, j \in DOMAIN built : built[i].method = "initialize" /\ built[j].method = "tools/call"

\* C3 as stated: the initialization exchange is performed exactly once in the
\* client's lifetime, no later call_tool sends another initialize request.
C3_InitSentOnce == InitsSent <= 1

\* C3 amended: a call_tool invocation sends an initialize request exactly when it
\* finds no session token held, and no other step of call_tool sends one; so once
\* a token is held no later call_tool initializes, and while none is held every
\* call_tool does.
C3_InitSentIffNoToken ==
  [][ (Len(wire') > Len(wire) /\ wire'[Len(wire')].method = "initialize")
        <=> (\E p \in Procs : pc[p] = "idle" /\ pc'[p] # "idle" /\ ~Truthy(session_id)) ]_vars

\* Two calls initialized (the first got no token), the third, holding the token,
\* sent its tools/call without initializing.
C3_Witness ==
  /\ InitsSent = 2
  /\ \E i \in DOMAIN wire :
       /\ wire[i].method = "tools/call"
       /\ wire[i].call = 3
       /\ Truthy(wire[i].session)
       /\ \A j \in DOMAIN wire : wire[j].method = "initialize" => wire[j].call < 3

\* C4 as stated: when the initialize request gets a non-2xx status, a transport
\* error is raised and session_id is still unset afterwards, whatever headers the
\* response carried.
C4_FailedInitLeavesSessionUnset ==
  \A p \in Procs :
    (pc[p] = "done" /\ initGot[p] # NoResponse /\ ~Is2xx(initGot[p].status))
      => (ret[p] = Raised("HTTPStatusError") /\ session_id = None)

\* C5: once session_id holds a token, no step of a call_tool invocation changes
\* it, whatever the server returns.
C5_TokenNotOverwritten ==
  [][Truthy(session_id) => session_id' = session_id]_vars

\* A second or later call ended while a token was held and its response carried
\* another session header.
C5_Witness ==
  \E p \in CallsDone :
    /\ callNo[p] >= 2
    /\ Truthy(session_id)
    /\ response[p] # NoResponse
    /\ response[p].session \notin {None, session_id}

\* The server's side of a response: the framings that carry the envelope ms
\* under a declared content type, and the document the server meant by ms.
Framings(ms, ct) ==
  IF ct \in EventStreamTypes
  THEN {SseBody(ms), SseSplitBody(ms), SseIndentedBody(ms)} ELSE {JsonBody(ms)}
Carries(r, ms) == r.body \in Framings(ms, r.ctype)
HasMember(ms, k) == \E i \in DOMAIN ms : ms[i].k = k
MemberValue(ms, k) == ms[CHOOSE i \in DOMAIN ms : ms[i].k = k].v
EnvelopeDoc(ms) ==
  [has |-> {ms[i].k : i \in DOMAIN ms},
   val |-> [k \in Keys |-> IF HasMember(ms, k) THEN MemberValue(ms, k) ELSE NullV]]

\* C6 as stated: for a 2xx response carrying an envelope, call_tool raises the
\* protocol error with the remote code and message exactly when the envelope has
\* an error field, and otherwise returns the whole envelope unchanged.
C6_ErrorFieldRaisesProtocolError ==
  \A p \in CallsDone :
    \A ms \in Envelopes(payload[p]) :
      (Is2xx(response[p].status) /\ Carries(response[p], ms))
        => IF HasMember(ms, "error")
           THEN ret[p] = RaisedRpc(MemberValue(ms, "error").code, MemberValue(ms, "error").message)
           ELSE ret[p] = Returned(EnvelopeDoc(ms))

\* What went wrong in an ended call_tool, told from what the server did: no
\* response or a non-2xx status, an envelope with an error field, a body that
\* carries no document in the declared framing; "none" if nothing went wrong.
Cause(p) ==
  IF response[p] = NoResponse \/ ~Is2xx(response[p].status) THEN "transport"
  ELSE IF \E ms \in Envelopes(payload[p]) : Carries(response[p], ms) /\ HasMember(ms, "error")
       THEN "protocol"
  ELSE IF \E ms \in Envelopes(payload[p]) : Carries(response[p], ms) THEN "none"
  ELSE "parse"

\* The kind a caller reads off the class of the exception: httpx.HTTPError and
\* its subclasses, json.JSONDecodeError, and what the error check raises.
KindOfException(exc) ==
  IF exc \in {"ConnectError", "ReadTimeout", "HTTPStatusError"} THEN "transport"
  ELSE IF exc = "JSONDecodeError" THEN "parse"
  ELSE IF exc \in {"ValueError", "AttributeError"} THEN "protocol"
  ELSE "unknown"

C8_ReturnedHasExactlyOne ==
  \A p \in CallsDone :
    ret[p].kind = "return"
      => (("result" \in ret[p].value.has) # ("error" \in ret[p].value.has))

\* C8 amended: an envelope returned by call_tool never contains the field error
\* (so never both); result it contains only if the response did.
C8_ReturnedHasNoError ==
  \A p \in CallsDone :
    ret[p].kind = "return" => "error" \notin ret[p].value.has

\* call_tool returned an envelope with neither field.
C8_Witness ==
  \E p \in CallsDone :
    /\ ret[p].kind = "return"
    /\ ret[p].value.has = {"id"}

\* C9 as stated: the envelope call_tool returns has the id of the request the
\* invocation sent.
C9_ReturnedIdIsRequestId ==
  \A p \in CallsDone :
    ret[p].kind = "return"
      => ("id" \in ret[p].value.has /\ ret[p].value.val["id"] = IntV(payload[p]))

\* C9 amended: the envelope call_tool returns is the document carried by the
\* response to its own tools/call POST, with the id the server wrote.
C9_ReturnedIsResponseDocument ==
  \A p \in CallsDone :
    ret[p].kind = "return"
      => \E ms \in Envelopes(payload[p]) :
           Carries(response[p], ms) /\ ret[p].value = EnvelopeDoc(ms)

\* call_tool returned an envelope whose id is not the id it sent.
C9_Witness ==
  \E p \in CallsDone :
    /\ ret[p].kind = "return"
    /\ payload[p] >= 1
    /\ ret[p].value.val["id"] = IntV(0)

\* C10: while no response has carried a session header, session_id is unset, and
\* a call_tool whose responses are 2xx with a well-formed envelope without error
\* returns.
C10_NoSessionHeaderStillWorks ==
  ~headerSeen =>
    /\ session_id = None
    /\ \A p \in CallsDone :
         (/\ Is2xx(response[p].status)
          /\ \E ms \in Envelopes(payload[p]) :
               ~HasMember(ms, "error") /\ Carries(response[p], ms))
           => ret[p].kind = "return"

\* The third call_tool returned and no response ever carried a session header.
C10_Witness ==
  /\ ~headerSeen
  /\ session_id = None
  /\ \E p \in CallsDone : callNo[p] = 3 /\ ret[p].kind = "return"

\* ---------------------------------------------------------------- C11
\* The requests a step puts on the wire.
Sent == {wire'[i] : i \in (Len(wire) + 1)..Len(wire')}

\* The value of the mcp-session-id header that goes with a held token.
HeldHeader(sid) == IF Truthy(sid) THEN sid ELSE None

\* C11 as stated: every request that is sent carries the token held when it is
\* sent, and no session header when none is held.
C11_EveryRequestCarriesHeldToken ==
  [][\A r \in Sent : r.session = HeldHeader(session_id')]_vars

\* C11: every tools/call request carries the token held when it is sent, and no
\* session header when none is held; an initialize request never carries a
\* session header, whether a token is held or not.
C11_ToolsCallCarriesHeldToken ==
  [][\A r \in Sent :
       /\ r.method = "tools/call" => r.session = HeldHeader(session_id')
       /\ r.method = "initialize" => r.session = None]_vars

\* A tools/call carried a token, then initialize_session was invoked and its
\* request went out without it, then a tools/call carried the token held now.
C11_Witness ==
  /\ Len(wire) = 4
  /\ wire[2].method = "tools/call" /\ Truthy(wire[2].session)
  /\ wire[3].method = "initialize" /\ wire[3].call = 0 /\ wire[3].session = None
  /\ wire[4].method = "tools/call" /\ Truthy(session_id) /\ wire[4].session = session_id

\* ---------------------------------------------------------------- C12
\* C12 as stated: no step of initialize_session, call_tool or close takes a
\* client that holds a token to no token or to another token.
C12_HeldTokenStays ==
  [][Truthy(session_id) => (Truthy(session_id') /\ session_id' = session_id)]_vars

\* C12: the token a client holds is replaced or dropped only by the response to
\* an initialize_session the caller invoked; call_tool and close leave it.
C12_HeldTokenChangesOnlyAtInitializeSession ==
  [][(Truthy(session_id) /\ session_id' # session_id)
       => \E p \in Procs : /\ op[p] = "initialize_session"
                           /\ pc[p] = "init_post" /\ pc'[p] = "done"
                           /\ session_id' = initGot'[p].session]_vars

\* A tools/call carried a token, and an initialize_session invoked afterwards
\* has left the client with another token or with none.
C12_Witness ==
  \E p \in Procs : \E i \in DOMAIN wire :
    /\ op[p] = "initialize_session" /\ pc[p] = "done"
    /\ wire[i].method = "tools/call" /\ Truthy(wire[i].session)
    /\ i < Len(wire)
    /\ session_id = initGot[p].session
    /\ session_id # wire[i].session

\* ---------------------------------------------------------------- C13
\* The call_tool invocations that were the first operation on the client and
\* whose first POST raised a transport error for want of a server.
FirstCallUnreachable ==
  {p \in CallsDone : /\ opsLog[1] = "call_tool" /\ callNo[p] = 1
                     /\ initGot[p] = NoResponse
                     /\ ret[p].kind = "raise" /\ ret[p].exc \in TransportFailures}

\* C13: when the server is unreachable on the first call_tool of a client, the
\* call raises a transport error, no response body was handed to a parser, no
\* tools/call request was sent, and session_id is still unset.
C13_UnreachableFirstCall ==
  \A p \in FirstCallUnreachable :
    /\ response[p] = NoResponse
    /\ \A i \in DOMAIN wire : wire[i].method = "initialize"
    /\ session_id = None

\* The first call_tool of a client raised ConnectError at its initialize POST.
C13_Witness ==
  \E p \in FirstCallUnreachable :
    /\ ret[p].exc = "ConnectError"
    /\ Len(wire) = 1 /\ wire[1].method = "initialize" /\ wire[1].call = 1
    /\ stderr = <<"call_tool: HTTP Error">>

\* ---------------------------------------------------------------- C14
\* The requests of kind m that call_tool invocation number c has sent.
SentBy(c, m) == {i \in DOMAIN wire : wire[i].call = c /\ wire[i].method = m}

\* The initialize exchange of invocation p failed: no response, or a non-2xx one.
InitFailed(p) ==
  /\ SentBy(callNo[p], "initialize") # {}
  /\ initGot[p] = NoResponse \/ ~Is2xx(initGot[p].status)

\* C14: a call_tool invocation sends at most one initialize and at most one
\* tools/call request; when its initialize exchange fails it sends no
\* tools/call; and the step in which an invocation fails sends nothing.
C14_NoRetry ==
  /\ [](\A c \in 1..nCalls : \A m \in {"initialize", "tools/call"} :
          Cardinality(SentBy(c, m)) <= 1)
  /\ [](\A p \in CallsDone :
          (ret[p].kind = "raise" /\ InitFailed(p)) => SentBy(callNo[p], "tools/call") = {})
  /\ [][\A p \in Procs :
          (ret[p].kind # "raise" /\ ret'[p].kind = "raise") => wire' = wire]_vars

\* The second call_tool found no token, its initialize was answered with a
\* non-2xx status, and it raised having sent that one request only.
C14_Witness ==
  \E p \in CallsDone :
    /\ callNo[p] = 2
    /\ initGot[p] # NoResponse /\ ~Is2xx(initGot[p].status)
    /\ ret[p] = Raised("HTTPStatusError")
    /\ Cardinality(SentBy(2, "initialize")) = 1
    /\ SentBy(2, "tools/call") = {}
    /\ Len(wire) = 3

\* ---------------------------------------------------------------- C19
\* C19 as stated: every request sent has an id greater than that of every
\* request sent before it.
C19_WireIdsIncrease ==
  \A i, j \in DOMAIN wire : i < j => wire[i].id < wire[j].id

\* Request j is the tools/call of the invocation whose initialize is request i.
OwnInitialize(i, j) ==
  /\ j = i + 1
  /\ wire[i].method = "initialize" /\ wire[j].method = "tools/call"
  /\ wire[i].call = wire[j].call
  /\ wire[i].id = wire[j].id + 1

\* C19: ids are assigned when the envelopes are built, in strictly increasing
\* order; on the wire a request has a greater id than every request sent before
\* it, except that the tools/call of an invocation that had to initialize
\* follows its own initialize request, whose id is greater by one.
C19_IdsIncreaseInBuildOrder ==
  /\ \A i \in DOMAIN built : built[i].id = i
  /\ \A i, j \in DOMAIN wire :
       i < j => (wire[i].id < wire[j].id \/ OwnInitialize(i, j))

\* Three requests were sent, the first two being the initialize (id 2) and the
\* tools/call (id 1) of the first call_tool.
C19_Witness ==
  /\ Len(wire) >= 3
  /\ OwnInitialize(1, 2)
  /\ wire[1].id = 2 /\ wire[2].id = 1
  /\ wire[3].id = 3

\* ---------------------------------------------------------------- C16
\* The close() invocations that have returned or raised.
ClosesDone == {p \in Procs : pc[p] = "done" /\ op[p] = "close"}

\* What close() may act on.
closeVars == <<request_id, session_id, http_client, built, wire, opened, released>>

\* C16: close() returns without raising and leaves http_client unset with every
\* connection that was opened released exactly once; invoked on a client
\* without a connection (never opened, or closed already) it changes nothing.
C16_CloseIdempotentTotal ==
  /\ [](\A p \in ClosesDone :
          /\ ret[p] = Returned(EmptyDoc)
          /\ http_client = 0
          /\ \A h \in 1..opened :
               Cardinality({i \in DOMAIN released : released[i] = h}) = 1)
  /\ [](\A i, j \in DOMAIN released : released[i] = released[j] => i = j)
  /\ [][\A p \in Procs :
          (pc[p] = "idle" /\ op'[p] = "close" /\ http_client = 0)
            => (pc'[p] = "done" /\ ret'[p] = Returned(EmptyDoc) /\ UNCHANGED closeVars)]_vars

\* After a call_tool, close() was invoked twice in a row; the second has
\* returned and the one connection was released once.
C16_Witness ==
  /\ opsLog = <<"call_tool", "close", "close">>
  /\ ClosesDone # {}
  /\ opened = 1 /\ released = <<1>> /\ http_client = 0

\* ---------------------------------------------------------------- C15
\* C15: in overlapping use every call_tool that starts while no token is held
\* sends initialize, whether or not another invocation's initialize is in
\* flight; every answered initialize stores its own header over whatever is
\* held; and the tools/call of an invocation carries the token its own
\* initialize stored.
C15_BootstrapRaces ==
  /\ [][\A p \in Procs :
          (pc[p] = "idle" /\ pc'[p] # "idle" /\ ~Truthy(session_id))
            => (pc'[p] = "init_post" /\ InitsSent' = InitsSent + 1)]_vars
  /\ [][\A p \in Procs :
          (pc[p] = "init_post" /\ initGot'[p] # NoResponse)
            => session_id' = initGot'[p].session]_vars
  /\ [](\A p \in Procs :
          (op[p] = "call_tool" /\ initGot[p] # NoResponse /\ Is2xx(initGot[p].status))
            => \E i \in DOMAIN wire :
                 /\ wire[i].call = callNo[p] /\ wire[i].method = "tools/call"
                 /\ wire[i].session = HeldHeader(initGot[p].session))

\* Two overlapping call_tool invocations on a fresh client both sent initialize
\* before either was answered; each then sent its tools/call with the token its
\* own initialize returned, and the client holds the later token.
C15_Witness ==
  /\ Len(wire) = 4
  /\ wire[1].method = "initialize" /\ wire[2].method = "initialize"
  /\ wire[1].call # wire[2].call
  /\ wire[3].method = "tools/call" /\ wire[4].method = "tools/call"
  /\ Truthy(wire[3].session) /\ Truthy(wire[4].session)
  /\ wire[3].session # wire[4].session
  /\ session_id = wire[4].session

\* ---------------------------------------------------------------- C20
\* The call_tool invocations awaiting a POST.
InFlight == {p \in Procs : pc[p] \in {"init_post", "call_post"}}

\* Two invocations are in flight together.
Overlapped == \E p, q \in InFlight : p # q

\* Two envelopes were built with the same id.
SharedId == \E i, j \in DOMAIN built : i # j /\ built[i].id = built[j].id

\* The wire shows two invocations that overlapped: a request of one went out
\* between the initialize and the tools/call of the other.
Interleaved ==
  \E i, j, k \in DOMAIN wire :
    i < j /\ j < k /\ wire[i].call = wire[k].call /\ wire[j].call # wire[i].call

C17_SseAgreesWithJson ==
  \A p \in CallsDone : \A ms \in Envelopes(payload[p]) :
    (Is2xx(response[p].status) /\ Carries(response[p], ms))
      => LET json == ResponseJson(JsonBody(ms))
         IN /\ json = ParseOk(EnvelopeDoc(ms))
            /\ _parse_sse_response(SseBody(ms)) = json
            /\ \A k \in 1..(Len(ObjectText(ms)) - 1) :
                 _parse_sse_response(SseSplitAt(ms, k)) = json
            /\ ParseBody(response[p]) = json
            /\ ret[p] = CheckError(json.doc)

\* call_tool returned the document of a frame split over two data lines.
C17_Witness ==
  \E p \in CallsDone : \E ms \in Envelopes(payload[p]) :
    /\ Is2xx(response[p].status)
    /\ response[p].ctype \in EventStreamTypes
    /\ response[p].body = SseSplitBody(ms)
    /\ HasMember(ms, "_meta")
    /\ ret[p] = Returned(EnvelopeDoc(ms))

\* ---------------------------------------------------------------- C18
\* The results printed to the output stream.
Results == {i \in DOMAIN stdout : stdout[i].kind = "result"}

\* call_tool raised: its handler has written to the error stream.
CallFailed ==
  \E i \in DOMAIN stderr : stderr[i] \in {"call_tool: HTTP Error", "call_tool: Error"}

\* main has reported a failed command on the error stream.
FailureReported ==
  \E i \in DOMAIN stderr : stderr[i] = "main: Failed to execute command"

\* C18: when the command raised, whatever the exception, main writes a message
\* to the error stream, prints nothing and exits with a non-zero status; when
\* it returned, main prints the returned envelope, indented unless --no-pretty
\* was given, and exits with status 0; a result is printed only by a run that
\* exits with 0.
C18_MainReportsOutcome ==
  /\ [][(mainPc = "command" /\ mainPc' = "finally")
         => /\ ret[1].kind = "raise"
                 => /\ exit_status' # 0
                    /\ stdout' = stdout
                    /\ stderr' = Append(stderr, "main: Failed to execute command")
            /\ ret[1].kind = "return"
                 => /\ exit_status' = 0
                    /\ stderr' = stderr
                    /\ stdout' = Append(stdout,
                         [kind |-> "result", doc |-> ret[1].value,
                          layout |-> IF no_pretty THEN "compact" ELSE "indent=2"])]_vars
  /\ [](mainPc = "exited"
          => /\ exit_status = 0 <=> Results # {}
             /\ exit_status # 0 => (FailureReported \/ stdout = <<HelpText>>)
             /\ CallFailed => (exit_status # 0 /\ FailureReported /\ Results = {})
             /\ Cardinality(Results) <= 1)

\* The server answered the command with a JSON-RPC error: the process has
\* exited with status 1, two messages on the error stream, nothing printed, and
\* the connection released.
C18_Witness ==
  /\ mainPc = "exited"
  /\ exit_status = 1
  /\ stderr = <<"call_tool: Error", "main: Failed to execute command">>
  /\ stdout = <<>>
  /\ Len(wire) = 2
  /\ released = <<1>> /\ http_client = 0

\* ---------------------------------------------------------------- C21
\* How call_tool ends on what a parser made of a 2xx body.
OutcomeOf(parsed) ==
  IF parsed.ok THEN CheckError(parsed.doc) ELSE Raised("JSONDecodeError")

\* The body of a response has a data line, as an SSE frame has.
LooksLikeSse(r) ==
  \E i \in DOMAIN r.body : r.body[i] # <<>> /\ Head(r.body[i]) = DataMark

\* C21: call_tool on a 2xx response ends as the SSE parser decides when the
\* content type names text/event-stream, and as the JSON parser decides under
\* every other content type, a missing one included, whatever the body looks
\* like.
C21_ParserByContentType ==
  \A p \in CallsDone :
    Is2xx(response[p].status)
      => /\ response[p].ctype \in EventStreamTypes
              => ret[p] = OutcomeOf(_parse_sse_response(response[p].body))
         /\ response[p].ctype \notin EventStreamTypes
              => ret[p] = OutcomeOf(ResponseJson(response[p].body))

\* A well-formed SSE frame came without a content type: it was handed to the
\* JSON parser, which the SSE parser would not have failed on.
C21_Witness ==
  \E p \in CallsDone :
    /\ Is2xx(response[p].status)
    /\ response[p].ctype = ""
    /\ LooksLikeSse(response[p])
    /\ _parse_sse_response(response[p].body).ok
    /\ ret[p] = Raised("JSONDecodeError")

\* ---------------------------------------------------------------- C22
\* The lines of a text that begin with the marker "data: ".
MarkedLines(lines) == {i \in DOMAIN lines : lines[i] # <<>> /\ Head(lines[i]) = DataMark}

RECURSIVE SuffixesFrom(_, _)
\* What follows the marker on the marked lines from line i on, in order, with
\* nothing in between.
SuffixesFrom(lines, i) ==
  IF i > Len(lines) THEN <<>>
  ELSE (IF i \in MarkedLines(lines) THEN Tail(lines[i]) ELSE <<>>)
         \o SuffixesFrom(lines, i + 1)

\* The 2xx event-stream responses call_tool has handled.
SseDone ==
  {p \in CallsDone : Is2xx(response[p].status) /\ response[p].ctype \in EventStreamTypes}

\* C22 as stated: the JSON text is made of the suffixes of exactly the lines of
\* the body that begin with the marker, and a body without such a line fails.
C22_SuffixesOfMarkedBodyLines ==
  \A p \in SseDone :
    /\ ret[p] = OutcomeOf(JsonLoads(SuffixesFrom(response[p].body, 1)))
    /\ MarkedLines(response[p].body) = {} => ret[p] = Raised("JSONDecodeError")

\* What _parse_sse_response does instead: the JSON text is made of the
\* suffixes, in order and with nothing in between, of exactly the lines that
\* begin with the marker once the blanks and line ends around the body as a
\* whole are stripped; a stripped body without such a line fails to parse.
C22_SuffixesOfMarkedStrippedLines ==
  \A p \in SseDone :
    LET lines == StripLines(response[p].body)
    IN /\ ret[p] = OutcomeOf(JsonLoads(SuffixesFrom(lines, 1)))
       /\ MarkedLines(lines) = {} => ret[p] = Raised("JSONDecodeError")

\* A frame whose data line is indented in the body, and so does not begin with
\* the marker there, was parsed and its document returned.
C22_IndentedFirstLineParsed ==
  \E p \in SseDone :
    /\ MarkedLines(response[p].body) = {}
    /\ MarkedLines(StripLines(response[p].body)) # {}
    /\ ret[p].kind = "return"

\* ---------------------------------------------------------------- C23
\* The call_tool invocations that have sent an initialize request.
Initializing == {p \in Procs : op[p] = "call_tool" /\ SentBy(callNo[p], "initialize") # {}}

\* C23: a call_tool invocation that initializes has sent no tools/call request
\* while it awaits the answer to initialize; a tools/call request it has sent
\* follows its initialize request on the wire and a 2xx answer to it; and when
\* the initialize exchange raised it has sent no tools/call request.
C23_InitializeBeforeToolsCall ==
  \A p \in Initializing :
    LET c == callNo[p]
    IN /\ pc[p] = "init_post" => SentBy(c, "tools/call") = {}
       /\ \A k \in SentBy(c, "tools/call") :
            /\ \A i \in SentBy(c, "initialize") : i < k
            /\ initGot[p] # NoResponse /\ Is2xx(initGot[p].status)
       /\ (\/ initGot[p] = NoResponse /\ pc[p] = "done"
           \/ initGot[p] # NoResponse /\ ~Is2xx(initGot[p].status))
            => (ret[p].kind = "raise" /\ SentBy(c, "tools/call") = {})

\* The second call_tool had to initialize again and awaits the answer to its
\* tools/call, sent right after the 2xx answer to its initialize.
C23_Witness ==
  \E p \in Initializing :
    /\ callNo[p] = 2 /\ pc[p] = "call_post"
    /\ Is2xx(initGot[p].status)
    /\ Len(wire) = 4
    /\ wire[3] = Request("initialize", 4, 2, None, http_client)
    /\ wire[4].method = "tools/call" /\ wire[4].id = 3 /\ wire[4].call = 2

\* ---------------------------------------------------------------- C24
\* A step of close(): its start, or its end after aclose().
CloseStep ==
  \E p \in Procs :
    \/ pc[p] = "idle" /\ op'[p] = "close"
    \/ pc[p] = "aclose" /\ pc'[p] = "done"

\* A call_tool starting on a client whose connection close() has released.
CallAfterClose(p) ==
  /\ pc[p] = "idle" /\ op'[p] = "call_tool"
  /\ http_client = 0 /\ opened > 0

\* C24: close() leaves session_id, request_id and the requests built and sent
\* as they are; a call_tool started after it opens a connection that was never
\* used before, takes the next id, and when a token is held sends its
\* tools/call with that token and no initialize.
C24_CloseKeepsSessionAndIds ==
  /\ [][CloseStep => UNCHANGED <<session_id, request_id, built, wire>>]_vars
  /\ [][\A p \in Procs :
          CallAfterClose(p)
            => /\ http_client' = opened + 1 /\ opened' = opened + 1
               /\ \A i \in DOMAIN released : released[i] # http_client'
               /\ payload'[p] = request_id + 1
               /\ Truthy(session_id)
                    => /\ wire' = Append(wire, Request("tools/call", request_id + 1,
                                                       callNo'[p], session_id, http_client'))
                       /\ request_id' = request_id + 1
                       /\ session_id' = session_id]_vars

\* call_tool, close, call_tool: the second call went out on a second
\* connection with the token of the first and the id after the first two.
C24_Witness ==
  /\ opsLog = <<"call_tool", "close", "call_tool">>
  /\ released = <<1>> /\ http_client = 2
  /\ Truthy(session_id)
  /\ Len(wire) = 3
  /\ wire[1].method = "initialize" /\ wire[2].conn = 1
  /\ wire[3] = Request("tools/call", 3, 2, session_id, 2)

\* ---------------------------------------------------------------- C25
\* main has created a client and run a command on it.
CommandRun == opsLog # <<>> /\ opsLog[1] = "call_tool"

\* C25: when the process has exited after running a command, with status 0 or
\* not, close() was invoked on the client after the command, no connection
\* handle is held, and every connection opened was released once.
C25_MainClosesClient ==
  (mainPc = "exited" /\ CommandRun)
    => /\ opsLog = <<"call_tool", "close">>
       /\ http_client = 0
       /\ opened >= 1
       /\ \A h \in 1..opened :
            Cardinality({i \in DOMAIN released : released[i] = h}) = 1

\* The command succeeded: the result was printed, the connection released and
\* the process has exited with status 0.
C25_Witness ==
  /\ mainPc = "exited" /\ CommandRun
  /\ exit_status = 0
  /\ Results # {}
  /\ opened = 1 /\ released = <<1>> /\ http_client = 0
====
